---- MODULE Spec2Model ----
(***************************************************************************)
(* The three-stage council pipeline of backend/council.py, its fan-out in  *)
(* backend/providers/router.py and its two controllers: the batch          *)
(* run_full_council and the streaming event_generator of backend/main.py.  *)
(*                                                                         *)
(* Python values.  A str is a sequence of tokens, each token a tuple of    *)
(* strings: <<"w">> is any prose, <<"FR">> the marker "FINAL RANKING:",    *)
(* <<"num", L>> a numbered item "<k>. Response L", <<"bare", L>> a bare    *)
(* "Response L".  The empty str is <<>>.  None in a str-typed slot is      *)
(* PyNone.  A dict is the sequence of its items in insertion order.        *)
(***************************************************************************)
EXTENDS Integers, Sequences, FiniteSets, TLC

\* ------------------------------------------------------------------ bounds
MaxMembers == 2

ModelIds == {"m1", "m2"}

\* ------------------------------------------------------------ python values
PyNone == << <<"None">> >>

EmptyStr == <<>>

ProseText == << <<"w">> >>

RankingText == << <<"w">>, <<"FR">>, <<"num", "B">>, <<"num", "A">> >>

\* query_model returns None (failure) or a dict whose 'content' is a str or None
NoResponse == [failed |-> TRUE, content |-> PyNone]

Response(c) == [failed |-> FALSE, content |-> c]

Pending == [failed |-> TRUE, content |-> << <<"pending">> >>]

Stage1Contents == {PyNone, EmptyStr, ProseText}

Stage2Contents == {PyNone, EmptyStr, RankingText}

Stage3Contents == {PyNone, EmptyStr, ProseText}

QueryOutcomes(contents) == {NoResponse} \cup {Response(c) : c \in contents}

CHAIRMAN_MODEL == "chairman"

TITLE_MODEL == "google/gemini-2.5-flash"

SynthesisError == << <<"Error: Unable to generate final synthesis.">> >>

NoModelsError == << <<"No models selected. Add at least one persona to the council.">> >>

AllFailedError == << <<"All models failed to respond. Please try again.">> >>

\* chr(65 + i) for i = 0, 1, ...: the letters, then the characters that follow Z
\* in code-point order (chr(92), the reverse solidus, is written "BACKSLASH")
Letters == <<"A", "B", "C", "D", "E", "F", "G", "H", "I", "J", "K", "L", "M",
             "N", "O", "P", "Q", "R", "S", "T", "U", "V", "W", "X", "Y", "Z",
             "[", "BACKSLASH", "]", "^", "_">>

SeqsUpTo(S, n) == UNION {[1..k -> S] : k \in 0..n}

Range(s) == {s[i] : i \in DOMAIN s}

\* ------------------------------------------------------------------ state
VARIABLES
    mode,               \* "batch": run_full_council; "stream": event_generator
    models,             \* the ordered member list
    is_first_message,   \* stream: the conversation had no message
    pc,                 \* the controller's position
    tasks,              \* the member queries of the running stage, by index
    arrival,            \* indices of the settled member queries, in completion order
    chair,              \* the chairman query: Pending or its outcome
    stage1_results,
    stage2_results,
    label_to_model,
    aggregate_rankings,
    stage3_result,
    result,             \* batch: the returned 4-tuple, <<>> before the return
    events,             \* stream: the event types yielded so far
    calls,              \* every query_model call, in issue order
    title_task,         \* stream: the title side task
    title_during,       \* what the controller awaited when the title task resolved
    store,              \* the conversation storage
    fn_pc,              \* a function called on its own: "idle", a call, "returned", "raised"
    labels,             \* the labels of stage2_collect_rankings
    text_arg,           \* the argument of parse_ranking_from_text
    parsed_ranking,     \* the value parse_ranking_from_text returned
    personas,           \* the personas argument of the stage functions (Optional[List])
    _cache,             \* models_fetcher: the cached catalog, or None
    _cache_time,        \* models_fetcher: time.time() when the catalog was stored
    clock,              \* time.time(), and how often it has advanced
    requests,           \* the requests to /api/config and /api/config/refresh-models
    clear_pending,      \* clear_models_cache was called and no get call has started since
    persona_ids         \* request.persona_ids of a message request (Optional[List[str]])

vars == <<mode, models, is_first_message, pc, tasks, arrival, chair,
          stage1_results, stage2_results, label_to_model, aggregate_rankings,
          stage3_result, result, events, calls, title_task, title_during, store,
          fn_pc, labels, text_arg, parsed_ranking, personas,
          _cache, _cache_time, clock, requests, clear_pending, persona_ids>>

\* ------------------------------------------------------------- python dict
\* d[k] = v on an insertion-ordered dict: an existing key keeps its position
DictSet(d, k, v) ==
    IF \E j \in DOMAIN d : d[j].k = k
    THEN [j \in DOMAIN d |-> IF d[j].k = k THEN [k |-> k, v |-> v] ELSE d[j]]
    ELSE Append(d, [k |-> k, v |-> v])

RECURSIVE DictOfPairs(_, _, _, _)
DictOfPairs(d, keys, vals, i) ==
    IF i > Len(keys) \/ i > Len(vals) THEN d
    ELSE DictOfPairs(DictSet(d, keys[i], vals[i]), keys, vals, i + 1)

\* list(zip(models, responses)): one item per position, duplicates kept
PairsFromZip(ks, vs) ==
    [i \in 1..(IF Len(ks) < Len(vs) THEN Len(ks) ELSE Len(vs)) |-> [k |-> ks[i], v |-> vs[i]]]

\* {model: response for model, response in zip(models, responses)}
DictFromZip(keys, vals) == DictOfPairs(<<>>, keys, vals, 1)

\* ------------------------------------------------------------ router.gather
\* responses in completion order: what collecting results as they arrive gives
GatherByArrival(t, arr) == [k \in 1..Len(t) |-> t[arr[k]]]

\* await asyncio.gather(*tasks): the results in the order of the tasks
GatherResults(t, arr) == [i \in 1..Len(t) |-> t[i]]

\* asyncio.wait(tasks, return_when=FIRST_COMPLETED) in place of gather
AnySettled == \E i \in DOMAIN tasks : tasks[i] # Pending

AllSettled == \A i \in DOMAIN tasks : tasks[i] # Pending

\* ------------------------------------------------------------------ stage 1
\* the loop "for model, response in responses.items(): if response is not None"
Stage1Format(d) ==
    LET kept == SelectSeq(d, LAMBDA e : ~e.v.failed)
    IN  [j \in DOMAIN kept |-> [model |-> kept[j].k, response |-> kept[j].v.content]]

\* ------------------------------------------------------- rank-text parsing
Min(S) == CHOOSE x \in S : \A y \in S : x <= y

LabelOfToken(t) == "Response " \o t[2]

MarkerPositions(text) == {i \in DOMAIN text : text[i][1] = "FR"}

\* ranking_text.split("FINAL RANKING:")[1]
RankingSection(text) ==
    LET first == Min(MarkerPositions(text))
        later == MarkerPositions(text) \ {first}
        last  == IF later = {} THEN Len(text) ELSE Min(later) - 1
    IN  SubSeq(text, first + 1, last)

\* re.findall(r'\d+\.\s*Response [A-Z]', s), each reduced to its 'Response X'
NumberedMatches(s) ==
    LET m == SelectSeq(s, LAMBDA t : t[1] = "num")
    IN  [j \in DOMAIN m |-> LabelOfToken(m[j])]

\* re.findall(r'Response [A-Z]', s)
LabelMatches(s) ==
    LET m == SelectSeq(s, LAMBDA t : t[1] \in {"num", "bare"})
    IN  [j \in DOMAIN m |-> LabelOfToken(m[j])]

parse_ranking_from_text(ranking_text) ==
    IF MarkerPositions(ranking_text) # {}
    THEN IF NumberedMatches(RankingSection(ranking_text)) # <<>>
         THEN NumberedMatches(RankingSection(ranking_text))
         ELSE LabelMatches(RankingSection(ranking_text))
    ELSE LabelMatches(ranking_text)

\* ranking_text.split("FINAL RANKING:")[1] taken without the test for the marker
ParseRaisesWithoutMarker(ranking_text) ==
    ranking_text = PyNone \/ MarkerPositions(ranking_text) = {}

\* '"FINAL RANKING:" in ranking_text' raises TypeError when ranking_text is None
ParseRaises(ranking_text) == ranking_text = PyNone

\* ------------------------------------------------------------------ stage 2
Labels(n) == [i \in 1..n |-> Letters[i]]

\* {f"Response {label}": result['model'] for label, result in zip(labels, stage1_results)}
LabelToModel(s1) ==
    [key \in {"Response " \o Labels(Len(s1))[i] : i \in DOMAIN s1} |->
        s1[CHOOSE i \in DOMAIN s1 : "Response " \o Labels(Len(s1))[i] = key].model]

Stage2Raises(d) == \E j \in DOMAIN d : ~d[j].v.failed /\ ParseRaises(d[j].v.content)

Stage2Format(d) ==
    LET kept == SelectSeq(d, LAMBDA e : ~e.v.failed)
    IN  [j \in DOMAIN kept |->
            [model |-> kept[j].k,
             ranking |-> kept[j].v.content,
             parsed_ranking |-> parse_ranking_from_text(kept[j].v.content)]]

\* --------------------------------------------------------- rank aggregator
\* only the first observation of a model is kept
PositionsAppendFirstOnly(mp, model, position) ==
    IF \E j \in DOMAIN mp : mp[j].k = model
    THEN mp
    ELSE Append(mp, [k |-> model, v |-> <<position>>])

\* model_positions[model_name].append(position) on a defaultdict(list)
PositionsAppend(mp, model, position) ==
    IF \E j \in DOMAIN mp : mp[j].k = model
    THEN [j \in DOMAIN mp |->
            IF mp[j].k = model THEN [k |-> model, v |-> Append(mp[j].v, position)]
            ELSE mp[j]]
    ELSE Append(mp, [k |-> model, v |-> <<position>>])

\* the walk over the known labels only, each numbered after the unknown ones are removed
RECURSIVE WalkKnown(_, _, _, _)
WalkKnown(mp, known, l2m, position) ==
    IF position > Len(known) THEN mp
    ELSE WalkKnown(PositionsAppend(mp, l2m[known[position]], position),
                   known, l2m, position + 1)

WalkParsedCompacted(mp, parsed, l2m, position) ==
    WalkKnown(mp, SelectSeq(parsed, LAMBDA l : l \in DOMAIN l2m), l2m, position)

RECURSIVE WalkParsed(_, _, _, _)
WalkParsed(mp, parsed, l2m, position) ==
    IF position > Len(parsed) THEN mp
    ELSE IF parsed[position] \in DOMAIN l2m
         THEN WalkParsed(PositionsAppend(mp, l2m[parsed[position]], position),
                         parsed, l2m, position + 1)
         ELSE WalkParsed(mp, parsed, l2m, position + 1)

RECURSIVE WalkRankings(_, _, _, _)
WalkRankings(mp, s2, l2m, r) ==
    IF r > Len(s2) THEN mp
    ELSE WalkRankings(WalkParsed(mp, parse_ranking_from_text(s2[r].ranking), l2m, 1),
                      s2, l2m, r + 1)

RECURSIVE SumSeq(_)
SumSeq(s) == IF s = <<>> THEN 0 ELSE s[1] + SumSeq(Tail(s))

\* round(total / count, 2), in hundredths; a tie goes to the even hundredth
RoundedAverage(total, count) ==
    LET q == (100 * total) \div count
        r == (100 * total) % count
    IN  IF 2 * r < count THEN q
        ELSE IF 2 * r > count THEN q + 1
        ELSE IF q % 2 = 0 THEN q ELSE q + 1

\* list.sort(key=average_rank) is stable: an entry goes after its equals
RECURSIVE SortByAverage(_)
\* a sort that puts an entry before the entries of equal average_rank
RECURSIVE SortByAverageUnstable(_)
SortByAverageUnstable(a) ==
    IF a = <<>> THEN <<>>
    ELSE LET rest == SortByAverageUnstable(SubSeq(a, 1, Len(a) - 1))
             x    == a[Len(a)]
             n    == Cardinality({j \in DOMAIN rest : rest[j].average_rank < x.average_rank})
         IN  SubSeq(rest, 1, n) \o <<x>> \o SubSeq(rest, n + 1, Len(rest))

SortByAverage(a) ==
    IF a = <<>> THEN <<>>
    ELSE LET rest == SortByAverage(SubSeq(a, 1, Len(a) - 1))
             x    == a[Len(a)]
             n    == Cardinality({j \in DOMAIN rest : rest[j].average_rank <= x.average_rank})
         IN  SubSeq(rest, 1, n) \o <<x>> \o SubSeq(rest, n + 1, Len(rest))

\* an aggregate with an entry for every model of the label map, observed or not
AggregateOverAllModels(s2, l2m) ==
    LET mp     == WalkRankings(<<>>, s2, l2m, 1)
        seen   == {mp[j].k : j \in DOMAIN mp}
        keys   == {k \in DOMAIN l2m : l2m[k] \notin seen}
        unseen == IF keys = {} THEN <<>>
                  ELSE <<[model |-> l2m[CHOOSE k \in keys : TRUE],
                          average_rank |-> 0, rankings_count |-> 0]>>
    IN  SortByAverage(unseen \o [j \in DOMAIN mp |->
            [model |-> mp[j].k,
             average_rank |-> RoundedAverage(SumSeq(mp[j].v), Len(mp[j].v)),
             rankings_count |-> Len(mp[j].v)]])

calculate_aggregate_rankings(s2, l2m) ==
    LET mp == WalkRankings(<<>>, s2, l2m, 1)
    IN  SortByAverage([j \in DOMAIN mp |->
            [model |-> mp[j].k,
             average_rank |-> RoundedAverage(SumSeq(mp[j].v), Len(mp[j].v)),
             rankings_count |-> Len(mp[j].v)]])

\* ------------------------------------------------------------------ stage 3
\* "if response is None" and the two returns of stage3_synthesize_final
Stage3Format(r) ==
    IF r.failed
    THEN [model |-> CHAIRMAN_MODEL, response |-> SynthesisError]
    ELSE [model |-> CHAIRMAN_MODEL, response |-> r.content]

\* ------------------------------------------------------------------- title
TitleContents == {PyNone, EmptyStr, ProseText}

NewConversation == << <<"New Conversation">> >>

\* response.get('content', ...).strip() raises AttributeError on None
TitleRaises(r) == ~r.failed /\ r.content = PyNone

TitleOf(r) == IF r.failed THEN NewConversation ELSE r.content

\* ----------------------------------------------------------------- storage
StorageOutcomes == {"ok", "raise"}

StoredBefore(first) == IF first THEN <<>> ELSE <<"user", "assistant">>

\* ------------------------------------------------------------------- init
NotYet == [model |-> "unset", response |-> EmptyStr]

NoTitleTask == [st |-> "none", title |-> EmptyStr]

\* no function is called on its own during a run of the pipeline
\* personas=None
NoPersonas == [given |-> FALSE, list |-> <<>>]

\* persona_ids = None
NoIds == [given |-> FALSE, list |-> <<>>]

\* _cache = None
NoCatalog == [by |-> 0]

\* no request for the model catalog is made
CacheIdle ==
    /\ _cache = NoCatalog
    /\ _cache_time = 0
    /\ clock = [time |-> 0, ticks |-> 0]
    /\ requests = <<>>
    /\ clear_pending = FALSE

FunctionsIdle ==
    /\ CacheIdle
    /\ persona_ids = NoIds
    /\ fn_pc = "idle"
    /\ personas = NoPersonas
    /\ labels = <<>>
    /\ text_arg = EmptyStr
    /\ parsed_ranking = <<>>

Init ==
    /\ FunctionsIdle
    /\ mode \in {"batch", "stream"}
    /\ models \in SeqsUpTo(ModelIds, MaxMembers)
    /\ is_first_message \in (IF mode = "stream" THEN BOOLEAN ELSE {FALSE})
    /\ pc = (IF mode = "batch" THEN "b_start" ELSE "s_start")
    /\ tasks = <<>>
    /\ arrival = <<>>
    /\ chair = Pending
    /\ stage1_results = <<>>
    /\ stage2_results = <<>>
    /\ label_to_model = <<>>
    /\ aggregate_rankings = <<>>
    /\ stage3_result = NotYet
    /\ result = <<>>
    /\ events = <<>>
    /\ calls = <<>>
    /\ title_task = NoTitleTask
    /\ title_during = ""
    /\ store = [messages |-> StoredBefore(is_first_message), title |-> NewConversation]

cacheVars == <<_cache, _cache_time, clock, requests, clear_pending>>

fnVars == <<fn_pc, labels, text_arg, parsed_ranking, personas, cacheVars, persona_ids>>

envVars == <<mode, models, is_first_message, fnVars>>

gatherVars == <<tasks, arrival>>

stageVars == <<stage1_results, stage2_results, label_to_model, aggregate_rankings,
               stage3_result>>

titleVars == <<title_task, title_during>>

\* ------------------------------------------------- the model query service
\* Stage 2 asking only the members that have a Stage-1 result
IssueSurvivorQueries(stage) ==
    LET asked == IF stage = "stage2"
                 THEN SelectSeq(models, LAMBDA m : \E j \in DOMAIN stage1_results :
                                                      stage1_results[j].model = m)
                 ELSE models
    IN  /\ calls' = calls \o [i \in 1..Len(asked) |-> [stage |-> stage, model |-> asked[i]]]
        /\ tasks' = [i \in 1..Len(asked) |-> Pending]
        /\ arrival' = <<>>

\* tasks = [query_model(models[i], messages_list[i], timeout) for i in range(len(models))]
IssueMemberQueries(stage) ==
    /\ calls' = calls \o [i \in 1..Len(models) |-> [stage |-> stage, model |-> models[i]]]
    /\ tasks' = [i \in 1..Len(models) |-> Pending]
    /\ arrival' = <<>>

\* response = await query_model(CHAIRMAN_MODEL, messages)
IssueChairmanQuery ==
    /\ calls' = Append(calls, [stage |-> "stage3", model |-> CHAIRMAN_MODEL])
    /\ chair' = Pending
    /\ tasks' = <<>>
    /\ arrival' = <<>>

\* a member query that failed is sent once more
SettleMemberWithRetry(i) ==
    LET stage == IF pc \in {"b_stage1", "s_stage1"} THEN "stage1" ELSE "stage2"
        sent  == SelectSeq(calls, LAMBDA c : c.stage = stage)
    IN  /\ pc \in {"b_stage1", "b_stage2", "s_stage1", "s_stage2"}
        /\ i \in DOMAIN tasks
        /\ tasks[i] = Pending
        /\ \E r \in QueryOutcomes(IF stage = "stage1" THEN Stage1Contents ELSE Stage2Contents) :
              IF r.failed /\ Len(sent) = Len(models)
              THEN /\ calls' = Append(calls, [stage |-> stage, model |-> models[i]])
                   /\ UNCHANGED <<tasks, arrival>>
              ELSE /\ tasks' = [tasks EXCEPT ![i] = r]
                   /\ arrival' = Append(arrival, i)
                   /\ UNCHANGED calls
        /\ UNCHANGED <<envVars, pc, chair, stageVars, result, events, titleVars, store>>

\* one member query of the running stage settles, in any order
SettleMember(i) ==
    /\ pc \in {"b_stage1", "b_stage2", "s_stage1", "s_stage2"}
    /\ i \in DOMAIN tasks
    /\ tasks[i] = Pending
    /\ \E r \in QueryOutcomes(IF pc \in {"b_stage1", "s_stage1"}
                              THEN Stage1Contents ELSE Stage2Contents) :
            tasks' = [tasks EXCEPT ![i] = r]
    /\ arrival' = Append(arrival, i)
    /\ UNCHANGED <<envVars, pc, chair, stageVars, result, events, calls, titleVars, store>>

SettleChairman ==
    /\ pc \in {"b_stage3", "s_stage3"}
    /\ chair = Pending
    /\ chair' \in QueryOutcomes(Stage3Contents)
    /\ UNCHANGED <<envVars, pc, gatherVars, stageVars, result, events, calls, titleVars,
                   store>>

\* what the controller is waiting for
PhaseOf(p) ==
    IF p = "s_stage1" THEN "stage1"
    ELSE IF p = "s_stage2" THEN "stage2"
    ELSE IF p = "s_stage3" THEN "stage3"
    ELSE "yield"

\* the title side task resolves while the generator is suspended
ResolveTitle ==
    /\ title_task.st = "running"
    /\ pc # "done"
    /\ \E r \in QueryOutcomes(TitleContents) :
            title_task' = IF TitleRaises(r) THEN [st |-> "raised", title |-> EmptyStr]
                          ELSE [st |-> "done", title |-> TitleOf(r)]
    /\ title_during' = PhaseOf(pc)
    /\ UNCHANGED <<envVars, pc, gatherVars, chair, stageVars, result, events, calls, store>>

\* ------------------------------------------------- stage results, as called
Stage1Results == Stage1Format(DictFromZip(models, GatherResults(tasks, arrival)))

Stage2Dict == DictFromZip(models, GatherResults(tasks, arrival))

\* ---------------------------------------------------------- batch controller
NoMembersResult ==
    [stage1 |-> <<>>, stage2 |-> <<>>,
     stage3 |-> [model |-> "error", response |-> NoModelsError], metadata |-> <<>>]

AllFailedResult ==
    [stage1 |-> <<>>, stage2 |-> <<>>,
     stage3 |-> [model |-> "error", response |-> AllFailedError], metadata |-> <<>>]

\* run_full_council up to the await of Stage 1's gather
BatchStart ==
    /\ pc = "b_start"
    /\ IF models = <<>>
       THEN /\ result' = NoMembersResult
            /\ pc' = "done"
            /\ UNCHANGED <<gatherVars, calls>>
       ELSE /\ IssueMemberQueries("stage1")
            /\ pc' = "b_stage1"
            /\ UNCHANGED result
    /\ UNCHANGED <<envVars, chair, stageVars, events, titleVars, store>>

\* Stage 1 returns and the run goes on to Stage 2 whatever it returned
BatchStage1DoneNoShortCircuit ==
    /\ pc = "b_stage1"
    /\ AllSettled
    /\ stage1_results' = Stage1Results
    /\ pc' = "b_stage1_done"
    /\ UNCHANGED <<envVars, gatherVars, chair, stage2_results, label_to_model,
                   aggregate_rankings, stage3_result, result, events, calls, titleVars,
                   store>>

\* Stage 1 returns; "if not stage1_results: return" the all-failed tuple
BatchStage1Done ==
    /\ pc = "b_stage1"
    /\ AllSettled
    /\ stage1_results' = Stage1Results
    /\ IF Stage1Results = <<>>
       THEN /\ result' = AllFailedResult
            /\ pc' = "done"
       ELSE /\ pc' = "b_stage1_done"
            /\ UNCHANGED result
    /\ UNCHANGED <<envVars, gatherVars, chair, stage2_results, label_to_model,
                   aggregate_rankings, stage3_result, events, calls, titleVars, store>>

\* stage2_collect_rankings up to the await of its gather
BatchStage2Call ==
    /\ pc = "b_stage1_done"
    /\ IssueMemberQueries("stage2")
    /\ pc' = "b_stage2"
    /\ UNCHANGED <<envVars, chair, stageVars, result, events, titleVars, store>>

\* Stage 2 returns (or raises out of run_full_council), then the aggregate
BatchStage2Done ==
    /\ pc = "b_stage2"
    /\ AllSettled
    /\ IF Stage2Raises(Stage2Dict)
       THEN /\ pc' = "raised"
            /\ UNCHANGED <<stage2_results, label_to_model, aggregate_rankings>>
       ELSE /\ stage2_results' = Stage2Format(Stage2Dict)
            /\ label_to_model' = LabelToModel(stage1_results)
            /\ aggregate_rankings' =
                   calculate_aggregate_rankings(Stage2Format(Stage2Dict),
                                                LabelToModel(stage1_results))
            /\ pc' = "b_stage2_done"
    /\ UNCHANGED <<envVars, gatherVars, chair, stage1_results, stage3_result, result,
                   events, calls, titleVars, store>>

\* stage3_synthesize_final up to the await of the chairman query
BatchStage3Call ==
    /\ pc = "b_stage2_done"
    /\ IssueChairmanQuery
    /\ pc' = "b_stage3"
    /\ UNCHANGED <<envVars, stageVars, result, events, titleVars, store>>

\* Stage 3 returns and run_full_council returns its 4-tuple
BatchStage3Done ==
    /\ pc = "b_stage3"
    /\ chair # Pending
    /\ stage3_result' = Stage3Format(chair)
    /\ result' = [stage1 |-> stage1_results, stage2 |-> stage2_results,
                  stage3 |-> Stage3Format(chair),
                  metadata |-> [label_to_model |-> label_to_model,
                                aggregate_rankings |-> aggregate_rankings]]
    /\ pc' = "done"
    /\ UNCHANGED <<envVars, gatherVars, chair, stage1_results, stage2_results,
                   label_to_model, aggregate_rankings, events, calls, titleVars, store>>

\* --------------------------------------------------------- stream controller
\* the error event followed by the completion event
StreamErrorThenComplete ==
    /\ events' = events \o <<"error", "complete">>
    /\ pc' = "done"

\* "except Exception as e: yield error": the generator ends after the event
StreamError ==
    /\ events' = Append(events, "error")
    /\ pc' = "done"

Emit(type, next) ==
    /\ events' = Append(events, type)
    /\ pc' = next

\* the title task created for every message, not only the first
StreamBeginAlwaysTitle ==
    /\ pc = "s_start"
    /\ \E o \in StorageOutcomes :
          IF o = "raise"
          THEN /\ StreamError
               /\ UNCHANGED <<store, title_task, calls>>
          ELSE /\ store' = [store EXCEPT !.messages = Append(@, "user")]
               /\ title_task' = [st |-> "running", title |-> EmptyStr]
               /\ calls' = Append(calls, [stage |-> "title", model |-> TITLE_MODEL])
               /\ Emit("stage1_start", "s_stage1_start")
    /\ UNCHANGED <<envVars, gatherVars, chair, stageVars, result, title_during>>

\* add_user_message, create_task(generate_conversation_title), yield stage1_start
StreamBegin ==
    /\ pc = "s_start"
    /\ \E o \in StorageOutcomes :
          IF o = "raise"
          THEN /\ StreamError
               /\ UNCHANGED <<store, title_task, calls>>
          ELSE /\ store' = [store EXCEPT !.messages = Append(@, "user")]
               /\ title_task' = IF is_first_message
                                THEN [st |-> "running", title |-> EmptyStr]
                                ELSE title_task
               /\ calls' = IF is_first_message
                           THEN Append(calls, [stage |-> "title", model |-> TITLE_MODEL])
                           ELSE calls
               /\ Emit("stage1_start", "s_stage1_start")
    /\ UNCHANGED <<envVars, gatherVars, chair, stageVars, result, title_during>>

\* stage1_collect_responses up to the await of its gather ("if not models: return []")
StreamStage1Call ==
    /\ pc = "s_stage1_start"
    /\ IF models = <<>>
       THEN /\ stage1_results' = <<>>
            /\ Emit("stage1_complete", "s_stage1_complete")
            /\ UNCHANGED <<gatherVars, calls>>
       ELSE /\ IssueMemberQueries("stage1")
            /\ pc' = "s_stage1"
            /\ UNCHANGED <<stage1_results, events>>
    /\ UNCHANGED <<envVars, chair, stage2_results, label_to_model, aggregate_rankings,
                   stage3_result, result, titleVars, store>>

\* Stage 1 returns; a title that has resolved is announced with stage1_complete
StreamStage1CompleteEager ==
    /\ pc = "s_stage1"
    /\ AllSettled
    /\ stage1_results' = Stage1Results
    /\ events' = IF title_task.st = "done"
                 THEN events \o <<"title_complete", "stage1_complete">>
                 ELSE Append(events, "stage1_complete")
    /\ pc' = "s_stage1_complete"
    /\ UNCHANGED <<envVars, gatherVars, chair, stage2_results, label_to_model,
                   aggregate_rankings, stage3_result, result, calls, titleVars, store>>

\* Stage 1 returns; yield stage1_complete
StreamStage1Complete ==
    /\ pc = "s_stage1"
    /\ AllSettled
    /\ stage1_results' = Stage1Results
    /\ Emit("stage1_complete", "s_stage1_complete")
    /\ UNCHANGED <<envVars, gatherVars, chair, stage2_results, label_to_model,
                   aggregate_rankings, stage3_result, result, calls, titleVars, store>>

\* Stage 2 is entered without its start event
StreamStage2StartEventSkipped ==
    /\ pc = "s_stage1_complete"
    /\ pc' = "s_stage2_start"
    /\ UNCHANGED <<envVars, gatherVars, chair, stageVars, result, events, calls, titleVars,
                   store>>

\* yield stage2_start
StreamStage2StartEvent ==
    /\ pc = "s_stage1_complete"
    /\ Emit("stage2_start", "s_stage2_start")
    /\ UNCHANGED <<envVars, gatherVars, chair, stageVars, result, calls, titleVars, store>>

\* stage2_collect_rankings up to the await of its gather; a gather of no task
\* does not suspend, so with no member the stage runs to its yield
StreamStage2Call ==
    /\ pc = "s_stage2_start"
    /\ IF models = <<>>
       THEN /\ stage2_results' = <<>>
            /\ label_to_model' = LabelToModel(stage1_results)
            /\ aggregate_rankings' =
                   calculate_aggregate_rankings(<<>>, LabelToModel(stage1_results))
            /\ Emit("stage2_complete", "s_stage2_complete")
            /\ UNCHANGED <<gatherVars, calls>>
       ELSE /\ IssueMemberQueries("stage2")
            /\ pc' = "s_stage2"
            /\ UNCHANGED <<stage2_results, label_to_model, aggregate_rankings, events>>
    /\ UNCHANGED <<envVars, chair, stage1_results, stage3_result, result, titleVars, store>>

\* Stage 2 returns (or raises), the aggregate; yield stage2_complete
StreamStage2Complete ==
    /\ pc = "s_stage2"
    /\ AllSettled
    /\ IF Stage2Raises(Stage2Dict)
       THEN /\ StreamError
            /\ UNCHANGED <<stage2_results, label_to_model, aggregate_rankings>>
       ELSE /\ stage2_results' = Stage2Format(Stage2Dict)
            /\ label_to_model' = LabelToModel(stage1_results)
            /\ aggregate_rankings' =
                   calculate_aggregate_rankings(Stage2Format(Stage2Dict),
                                                LabelToModel(stage1_results))
            /\ Emit("stage2_complete", "s_stage2_complete")
    /\ UNCHANGED <<envVars, gatherVars, chair, stage1_results, stage3_result, result,
                   calls, titleVars, store>>

\* yield stage3_start
StreamStage3StartEvent ==
    /\ pc = "s_stage2_complete"
    /\ Emit("stage3_start", "s_stage3_start")
    /\ UNCHANGED <<envVars, gatherVars, chair, stageVars, result, calls, titleVars, store>>

\* stage3_synthesize_final up to the await of the chairman query
StreamStage3Call ==
    /\ pc = "s_stage3_start"
    /\ IssueChairmanQuery
    /\ pc' = "s_stage3"
    /\ UNCHANGED <<envVars, stageVars, result, events, titleVars, store>>

\* Stage 3 returns; yield stage3_complete
StreamStage3Complete ==
    /\ pc = "s_stage3"
    /\ chair # Pending
    /\ stage3_result' = Stage3Format(chair)
    /\ Emit("stage3_complete", "s_stage3_complete")
    /\ UNCHANGED <<envVars, gatherVars, chair, stage1_results, stage2_results,
                   label_to_model, aggregate_rankings, result, calls, titleVars, store>>

\* "if title_task: title = await title_task", update_conversation_title,
\* yield title_complete
StreamJoinTitle ==
    /\ pc = "s_stage3_complete"
    /\ title_task.st \in {"done", "raised"}
    /\ \E o \in StorageOutcomes :
          IF title_task.st = "raised" \/ o = "raise"
          THEN /\ StreamError
               /\ UNCHANGED store
          ELSE /\ store' = [store EXCEPT !.title = title_task.title]
               /\ Emit("title_complete", "s_title_complete")
    /\ UNCHANGED <<envVars, gatherVars, chair, stageVars, result, calls, titleVars>>

\* add_assistant_message that has written the message when it raises
StreamSaveWrittenOnRaise ==
    /\ pc \in (IF title_task.st = "none" THEN {"s_stage3_complete"} ELSE {"s_title_complete"})
    /\ store' = [store EXCEPT !.messages = Append(@, "assistant")]
    /\ \E o \in StorageOutcomes :
          IF o = "raise" THEN StreamError ELSE Emit("complete", "done")
    /\ UNCHANGED <<envVars, gatherVars, chair, stageVars, result, calls, titleVars>>

\* add_assistant_message, yield complete
StreamSave ==
    /\ pc \in (IF title_task.st = "none" THEN {"s_stage3_complete"} ELSE {"s_title_complete"})
    /\ \E o \in StorageOutcomes :
          IF o = "raise"
          THEN /\ StreamError
               /\ UNCHANGED store
          ELSE /\ store' = [store EXCEPT !.messages = Append(@, "assistant")]
               /\ Emit("complete", "done")
    /\ UNCHANGED <<envVars, gatherVars, chair, stageVars, result, calls, titleVars>>

\* ------------------------------------------------------------ specification
Next ==
    \/ BatchStart
    \/ BatchStage1Done
    \/ BatchStage2Call
    \/ BatchStage2Done
    \/ BatchStage3Call
    \/ BatchStage3Done
    \/ StreamBegin
    \/ StreamStage1Call
    \/ StreamStage1Complete
    \/ StreamStage2StartEvent
    \/ StreamStage2Call
    \/ StreamStage2Complete
    \/ StreamStage3StartEvent
    \/ StreamStage3Call
    \/ StreamStage3Complete
    \/ StreamJoinTitle
    \/ StreamSave
    \/ \E i \in 1..MaxMembers : SettleMember(i)
    \/ SettleChairman
    \/ ResolveTitle

Spec == Init /\ [][Next]_vars

\* ------------------------------------------- the functions called on their own
MaxResults == 27

MaxTextLen == 4

\* the pieces a ranking text is made of: prose, the marker "FINAL RANKING:", a
\* numbered item "1. Response X" and a bare mention "Response X"
Tokens == {<<"w">>, <<"FR">>, <<"num", "A">>, <<"num", "B">>, <<"bare", "A">>, <<"bare", "B">>}

\* the values stage2_collect_rankings passes to parse_ranking_from_text
Texts == SeqsUpTo(Tokens, MaxTextLen) \cup {PyNone}

\* a Stage-1 result list of n members, each under its own model id
Stage1List(n) == [i \in 1..n |-> [model |-> "model-" \o ToString(i), response |-> ProseText]]

MaxRankLen == 2

MaxRankings == 2

\* a ranking text in the requested format: the marker, then one numbered item per label
RankText(ls) == << <<"FR">> >> \o [i \in DOMAIN ls |-> <<"num", ls[i]>>]

\* the labels a member can write; no label map below has a key for "C"
RankLabels == {"A", "B", "C"}

\* Stage-2 result lists: one entry per ranking text, as stage2_collect_rankings formats them
Stage2Lists ==
    {Stage2Format([j \in DOMAIN ts |->
                      [k |-> "model-" \o ToString(j), v |-> Response(RankText(ts[j]))]]) :
        ts \in SeqsUpTo(SeqsUpTo(RankLabels, MaxRankLen), MaxRankings)}

\* the label maps of zero, one and two Stage-1 results
LabelMaps == {LabelToModel(Stage1List(n)) : n \in {0, 1, 2}}

PipelineIdle ==
    /\ mode = "batch"
    /\ models = <<>>
    /\ is_first_message = FALSE
    /\ pc = "idle"
    /\ tasks = <<>>
    /\ arrival = <<>>
    /\ chair = Pending
    /\ aggregate_rankings = <<>>
    /\ stage3_result = NotYet
    /\ result = <<>>
    /\ events = <<>>
    /\ calls = <<>>
    /\ title_task = NoTitleTask
    /\ title_during = ""
    /\ store = [messages |-> <<>>, title |-> NewConversation]

InitFunctions ==
    /\ PipelineIdle
    /\ CacheIdle
    /\ persona_ids = NoIds
    /\ personas = NoPersonas
    /\ labels = <<>>
    /\ parsed_ranking = <<>>
    /\ \/ /\ fn_pc = "call_labels"
          /\ stage1_results \in {Stage1List(n) : n \in 0..MaxResults}
          /\ stage2_results = <<>>
          /\ label_to_model = <<>>
          /\ text_arg = EmptyStr
       \/ /\ fn_pc = "call_parse"
          /\ stage1_results = <<>>
          /\ stage2_results = <<>>
          /\ label_to_model = <<>>
          /\ text_arg \in Texts
       \/ /\ fn_pc = "call_aggregate"
          /\ stage1_results = <<>>
          /\ stage2_results \in Stage2Lists
          /\ label_to_model \in LabelMaps
          /\ text_arg = EmptyStr

\* labels = [chr(65 + i) for i in range(len(stage1_results))] and the label map
AssignLabels ==
    /\ fn_pc = "call_labels"
    /\ labels' = Labels(Len(stage1_results))
    /\ label_to_model' = LabelToModel(stage1_results)
    /\ fn_pc' = "returned_labels"
    /\ UNCHANGED <<mode, models, is_first_message, pc, gatherVars, chair, stage1_results,
                   stage2_results, aggregate_rankings, stage3_result, result, events,
                   calls, titleVars, store, text_arg, parsed_ranking, personas, cacheVars,
                   persona_ids>>

\* parsed = parse_ranking_from_text(full_text)
ParseRanking ==
    /\ fn_pc = "call_parse"
    /\ IF ParseRaises(text_arg)
       THEN fn_pc' = "raised" /\ UNCHANGED parsed_ranking
       ELSE fn_pc' = "returned_parse" /\ parsed_ranking' = parse_ranking_from_text(text_arg)
    /\ UNCHANGED <<mode, models, is_first_message, pc, gatherVars, chair, stageVars,
                   result, events, calls, titleVars, store, labels, text_arg, personas,
                   cacheVars, persona_ids>>

\* aggregate_rankings = calculate_aggregate_rankings(stage2_results, label_to_model)
Aggregate ==
    /\ fn_pc = "call_aggregate"
    /\ aggregate_rankings' = calculate_aggregate_rankings(stage2_results, label_to_model)
    /\ fn_pc' = "returned_aggregate"
    /\ UNCHANGED <<mode, models, is_first_message, pc, gatherVars, chair, stage1_results,
                   stage2_results, label_to_model, stage3_result, result, events, calls,
                   titleVars, store, labels, text_arg, parsed_ranking, personas,
                   cacheVars, persona_ids>>

NextFunctions == AssignLabels \/ ParseRanking \/ Aggregate

SpecFunctions == InitFunctions /\ [][NextFunctions]_vars

\* ------------------------------------------------------- a run with personas
UserQuery == << <<"query">> >>

\* a persona with a prompt and no description, and one with a description and
\* an empty prompt
Personas ==
    {[name |-> "analyst", prompt |-> << <<"You are an analyst.">> >>, description |-> EmptyStr],
     [name |-> "plain", prompt |-> EmptyStr, description |-> << <<"No special role.">> >>]}

\* personas=None, or a list of persona dicts of any length
PersonaLists ==
    {NoPersonas} \cup {[given |-> TRUE, list |-> l] : l \in SeqsUpTo(Personas, MaxMembers + 1)}

\* persona=None
NoPersona == [name |-> "None", prompt |-> EmptyStr, description |-> EmptyStr]

_build_messages(user_content, persona) ==
    IF persona # NoPersona /\ persona.prompt # EmptyStr
    THEN <<[role |-> "system", content |-> persona.prompt],
           [role |-> "user", content |-> user_content]>>
    ELSE <<[role |-> "user", content |-> user_content]>>

\* the persona a stage passes to _build_messages for member i:
\* "if personas and len(personas) >= len(models)": personas[i], else None
PersonaOf(p, ms, i) ==
    IF p.given /\ p.list # <<>> /\ Len(p.list) >= Len(ms)
    THEN (IF i <= Len(p.list) THEN p.list[i] ELSE NoPersona)
    ELSE NoPersona

\* the ranking prompt: the question and the Stage-1 responses under their labels
RankingPrompt(user_query, s1) ==
    << <<"ranking_prompt">> >> \o user_query \o
        [i \in DOMAIN s1 |-> <<"Response", Labels(Len(s1))[i], s1[i].response>>]

\* the queries of one stage: query_model(models[i], messages_list[i])
StageQueries(stage, user_content, ms, p) ==
    [i \in DOMAIN ms |->
        [stage |-> stage, model |-> ms[i],
         messages |-> _build_messages(user_content, PersonaOf(p, ms, i)),
         persona |-> PersonaOf(p, ms, i)]]

\* one line per Stage-1 result; "" unless len(personas) == len(stage1_results);
\* desc is the description, else the first line of the prompt
_build_persona_context(s1, p) ==
    IF ~(p.given /\ p.list # <<>>) \/ Len(p.list) # Len(s1)
    THEN <<>>
    ELSE [i \in DOMAIN s1 |->
            [model |-> s1[i].model,
             name |-> p.list[i].name,
             desc |-> IF p.list[i].description # EmptyStr
                      THEN p.list[i].description ELSE p.list[i].prompt]]

\* chairman_prompt: the question, the persona block when there is one, and the
\* texts of Stage 1 and Stage 2
ChairmanPrompt(user_query, s1, s2, p) ==
    [question |-> user_query,
     persona_context |-> _build_persona_context(s1, p),
     stage1_text |-> [i \in DOMAIN s1 |-> <<s1[i].model, s1[i].response>>],
     stage2_text |-> [i \in DOMAIN s2 |-> <<s2[i].model, s2[i].ranking>>]]

\* run_full_council passes personas to stage3_synthesize_final; event_generator
\* calls stage3_synthesize_final(request.content, stage1_results, stage2_results)
Stage3Personas == IF mode = "batch" THEN personas ELSE NoPersonas

InitPersonas ==
    /\ mode \in {"batch", "stream"}
    /\ models \in SeqsUpTo(ModelIds, MaxMembers)
    /\ personas \in PersonaLists
    /\ is_first_message = FALSE
    /\ pc = "p_start"
    /\ tasks = <<>>
    /\ arrival = <<>>
    /\ chair = Pending
    /\ stage1_results = <<>>
    /\ stage2_results = <<>>
    /\ label_to_model = <<>>
    /\ aggregate_rankings = <<>>
    /\ stage3_result = NotYet
    /\ result = <<>>
    /\ events = <<>>
    /\ calls = <<>>
    /\ title_task = NoTitleTask
    /\ title_during = ""
    /\ store = [messages |-> <<>>, title |-> NewConversation]
    /\ fn_pc = "idle"
    /\ labels = <<>>
    /\ text_arg = EmptyStr
    /\ parsed_ranking = <<>>
    /\ CacheIdle
    /\ persona_ids = NoIds

personaFrame == <<mode, models, personas, is_first_message, arrival, events, titleVars,
                  store, fn_pc, labels, text_arg, parsed_ranking, cacheVars,
                  persona_ids>>

\* stage1_collect_responses(user_query, models, personas), with the test that
\* follows it in run_full_council
PersonaStage1 ==
    /\ pc = "p_start"
    /\ IF models = <<>>
       THEN /\ IF mode = "batch"
               THEN pc' = "p_done" /\ result' = NoMembersResult
               ELSE pc' = "p_stage1_done" /\ UNCHANGED result
            /\ UNCHANGED <<calls, tasks, stage1_results>>
       ELSE \E out \in [DOMAIN models -> QueryOutcomes({ProseText})] :
              /\ calls' = calls \o StageQueries("stage1", UserQuery, models, personas)
              /\ tasks' = out
              /\ stage1_results' = Stage1Format(DictFromZip(models, out))
              /\ IF mode = "batch" /\ Stage1Format(DictFromZip(models, out)) = <<>>
                 THEN pc' = "p_done" /\ result' = AllFailedResult
                 ELSE pc' = "p_stage1_done" /\ UNCHANGED result
    /\ UNCHANGED <<personaFrame, chair, stage2_results, label_to_model,
                   aggregate_rankings, stage3_result>>

\* stage2_collect_rankings(user_query, stage1_results, models, personas) and
\* calculate_aggregate_rankings
PersonaStage2 ==
    /\ pc = "p_stage1_done"
    /\ \E out \in [DOMAIN models -> QueryOutcomes({RankingText})] :
          /\ calls' = calls \o StageQueries("stage2", RankingPrompt(UserQuery, stage1_results),
                                            models, personas)
          /\ tasks' = out
          /\ stage2_results' = Stage2Format(DictFromZip(models, out))
          /\ label_to_model' = LabelToModel(stage1_results)
          /\ aggregate_rankings' =
                 calculate_aggregate_rankings(Stage2Format(DictFromZip(models, out)),
                                              LabelToModel(stage1_results))
    /\ pc' = "p_stage2_done"
    /\ UNCHANGED <<personaFrame, chair, stage1_results, stage3_result, result>>

\* stage3_synthesize_final, with the personas the mode passes to it
PersonaStage3 ==
    /\ pc = "p_stage2_done"
    /\ calls' = Append(calls,
           [stage |-> "stage3", model |-> CHAIRMAN_MODEL,
            messages |-> <<[role |-> "user",
                            content |-> ChairmanPrompt(UserQuery, stage1_results,
                                                       stage2_results, Stage3Personas)]>>,
            persona |-> NoPersona])
    /\ \E r \in QueryOutcomes({ProseText}) :
          /\ chair' = r
          /\ stage3_result' = Stage3Format(r)
          /\ result' = IF mode = "batch"
                       THEN [stage1 |-> stage1_results, stage2 |-> stage2_results,
                             stage3 |-> Stage3Format(r),
                             metadata |-> [label_to_model |-> label_to_model,
                                           aggregate_rankings |-> aggregate_rankings]]
                       ELSE result
    /\ pc' = "p_done"
    /\ UNCHANGED <<personaFrame, tasks, stage1_results, stage2_results, label_to_model,
                   aggregate_rankings>>

NextPersonas == PersonaStage1 \/ PersonaStage2 \/ PersonaStage3

SpecPersonas == InitPersonas /\ [][NextPersonas]_vars

\* ------------------------------------------------ the model catalog cache
\* The requests to GET /api/config (get_config) and POST
\* /api/config/refresh-models (refresh_models), which run as coroutines of one
\* event loop and share the module globals _cache and _cache_time.

\* Cache TTL in seconds (5 minutes)
_CACHE_TTL == 300

\* how many requests are made
MaxRequests == 3

\* how often time.time() advances between the steps of the requests
MaxTicks == 2

\* by how much time.time() advances at once
Ticks == {1, _CACHE_TTL - 1, _CACHE_TTL}

\* the catalog fetch_providers_models returns to request r
Fetched(r) == [by |-> r]

\* clear_models_cache() that leaves the cached catalog in place
ClearKeepsCatalog == [cache |-> _cache, time |-> _cache_time]

\* clear_models_cache(): the values of _cache and _cache_time it leaves
clear_models_cache == [cache |-> NoCatalog, time |-> 0]

\* get_providers_models: _cache is not None and (time.time() - _cache_time) < _CACHE_TTL
CacheFresh(cache, time) == cache # NoCatalog /\ (clock.time - time) < _CACHE_TTL

\* get_providers_models() up to its return or its await, called by a request of
\* the given kind when the globals hold cache and time; after_clear says that
\* clear_models_cache was called and no other call has started since.  The
\* fields saw_cache and saw_age record what the globals held at the call.
get_providers_models(kind, cache, time, after_clear) ==
    LET seen == [kind |-> kind, after_clear |-> after_clear,
                 saw_cache |-> cache, saw_age |-> clock.time - time]
    IN  /\ Len(requests) < MaxRequests
        /\ IF CacheFresh(cache, time)
             THEN requests' = Append(requests, seen @@ [pc |-> "done", fetched |-> FALSE,
                                                        returned |-> cache])
             ELSE requests' = Append(requests, seen @@ [pc |-> "fetching", fetched |-> TRUE,
                                                        returned |-> NoCatalog])
        /\ _cache' = cache
        /\ _cache_time' = time
        /\ clear_pending' = FALSE
        /\ UNCHANGED clock

\* get_config(): await get_providers_models()
GetConfig == get_providers_models("get_config", _cache, _cache_time, clear_pending)

\* refresh_models(): clear_models_cache() and then await get_providers_models(),
\* which runs up to its own await before any other coroutine does
RefreshModels ==
    get_providers_models("refresh_models", clear_models_cache.cache,
                         clear_models_cache.time, TRUE)

\* the fetch of request r returns: _cache = ...; _cache_time = time.time(); return _cache
FinishFetch(r) ==
    /\ requests[r].pc = "fetching"
    /\ _cache' = Fetched(r)
    /\ _cache_time' = clock.time
    /\ requests' = [requests EXCEPT ![r] = [@ EXCEPT !.pc = "done", !.returned = Fetched(r)]]
    /\ UNCHANGED <<clock, clear_pending>>

\* time passes
Tick ==
    /\ clock.ticks < MaxTicks
    /\ \E d \in Ticks : clock' = [time |-> clock.time + d, ticks |-> clock.ticks + 1]
    /\ UNCHANGED <<_cache, _cache_time, requests, clear_pending>>

\* the server has been started, at a time.time() of at least _CACHE_TTL, and
\* no conversation is running
InitCache ==
    /\ PipelineIdle
    /\ stage1_results = <<>>
    /\ stage2_results = <<>>
    /\ label_to_model = <<>>
    /\ fn_pc = "idle"
    /\ personas = NoPersonas
    /\ labels = <<>>
    /\ text_arg = EmptyStr
    /\ parsed_ranking = <<>>
    /\ _cache = NoCatalog
    /\ _cache_time = 0
    /\ clock = [time |-> _CACHE_TTL, ticks |-> 0]
    /\ requests = <<>>
    /\ clear_pending = FALSE
    /\ persona_ids = NoIds

cacheFrame == <<mode, models, is_first_message, pc, tasks, arrival, chair, stage1_results,
                stage2_results, label_to_model, aggregate_rankings, stage3_result, result,
                events, calls, titleVars, store, fn_pc, labels, text_arg, parsed_ranking,
                personas, persona_ids>>

NextCache ==
    \/ GetConfig /\ UNCHANGED cacheFrame
    \/ RefreshModels /\ UNCHANGED cacheFrame
    \/ (\E r \in DOMAIN requests : FinishFetch(r)) /\ UNCHANGED cacheFrame
    \/ Tick /\ UNCHANGED cacheFrame

SpecCache == InitCache /\ [][NextCache]_vars

\* ------------------------------------------------ the message requests
\* send_message and send_message_stream from the request to the first stage,
\* with the persona IDs of the request resolved by _resolve_personas.

\* from .config import COUNCIL_MODELS
COUNCIL_MODELS == <<"m1", "m2">>

\* how many persona IDs a request carries
MaxIds == 2

\* the personas in persona storage; "" is a model that is not assigned
StoredPersonas ==
    <<[id |-> "p1", name |-> "analyst", prompt |-> << <<"You are an analyst.">> >>,
       description |-> EmptyStr, model |-> "m1"],
      [id |-> "p2", name |-> "plain", prompt |-> EmptyStr,
       description |-> << <<"No special role.">> >>, model |-> "m2"],
      [id |-> "p3", name |-> "unassigned", prompt |-> EmptyStr,
       description |-> EmptyStr, model |-> ""]>>

\* the IDs a request can carry: stored ones, one that is not stored, the empty
\* string and a blank one
RequestIds == {"p1", "p2", "p3", "unknown", "", " "}

\* persona_ids of a request: None, or a list of IDs
IdLists == {NoIds} \cup {[given |-> TRUE, list |-> l] : l \in SeqsUpTo(RequestIds, MaxIds)}

\* persona_storage.get_persona(pid) found nothing
NotFound == [id |-> "None"]

get_persona(persona_id) ==
    IF \E i \in DOMAIN StoredPersonas : StoredPersonas[i].id = persona_id
    THEN StoredPersonas[Min({i \in DOMAIN StoredPersonas : StoredPersonas[i].id = persona_id})]
    ELSE NotFound

\* "pid and str(pid).strip()"
NonBlank(pid) == pid # "" /\ pid # " "

\* the loop of _resolve_personas over the IDs from position i on: the first ID
\* that is not stored or whose persona has no model raises HTTPException(400)
RECURSIVE ResolveLoop(_, _, _, _)
ResolveLoop(ids, i, ps, ms) ==
    IF i > Len(ids) THEN [raised |-> FALSE, personas |-> ps, models |-> ms]
    ELSE LET p == get_persona(ids[i])
         IN  IF p = NotFound \/ p.model = ""
             THEN [raised |-> TRUE, personas |-> <<>>, models |-> <<>>]
             ELSE ResolveLoop(ids, i + 1, Append(ps, p), Append(ms, p.model))

_resolve_personas(pids) ==
    IF ~pids.given \/ pids.list = <<>>
    THEN [raised |-> FALSE, personas |-> <<>>, models |-> <<>>]
    ELSE ResolveLoop(SelectSeq(pids.list, NonBlank), 1, <<>>, <<>>)

\* a request has arrived for an existing conversation
InitRequests ==
    /\ mode \in {"batch", "stream"}
    /\ is_first_message \in BOOLEAN
    /\ persona_ids \in IdLists
    /\ pc = "r_start"
    /\ models = <<>>
    /\ personas = NoPersonas
    /\ tasks = <<>>
    /\ arrival = <<>>
    /\ chair = Pending
    /\ stage1_results = <<>>
    /\ stage2_results = <<>>
    /\ label_to_model = <<>>
    /\ aggregate_rankings = <<>>
    /\ stage3_result = NotYet
    /\ result = <<>>
    /\ events = <<>>
    /\ calls = <<>>
    /\ title_task = NoTitleTask
    /\ title_during = ""
    /\ store = [messages |-> StoredBefore(is_first_message), title |-> NewConversation]
    /\ fn_pc = "idle"
    /\ labels = <<>>
    /\ text_arg = EmptyStr
    /\ parsed_ranking = <<>>
    /\ CacheIdle

requestFrame == <<mode, is_first_message, persona_ids, tasks, arrival, chair, stageVars,
                  result, title_during, fn_pc, labels, text_arg, parsed_ranking, cacheVars>>

\* send_message: storage.add_user_message(conversation_id, request.content)
BatchAddUserMessage ==
    /\ mode = "batch"
    /\ pc = "r_start"
    /\ store' = [store EXCEPT !.messages = Append(@, "user")]
    /\ pc' = "r_title"
    /\ UNCHANGED <<requestFrame, models, personas, events, calls, title_task>>

\* send_message: "if is_first_message: title = await generate_conversation_title(...)"
\* and update_conversation_title
BatchTitle ==
    /\ pc = "r_title"
    /\ IF is_first_message
       THEN /\ calls' = Append(calls, [stage |-> "title", model |-> TITLE_MODEL])
            /\ \E r \in QueryOutcomes(TitleContents) :
                  IF TitleRaises(r)
                  THEN pc' = "r_raised" /\ UNCHANGED store
                  ELSE pc' = "r_resolve" /\ store' = [store EXCEPT !.title = TitleOf(r)]
       ELSE /\ pc' = "r_resolve"
            /\ UNCHANGED <<calls, store>>
    /\ UNCHANGED <<requestFrame, models, personas, events, title_task>>

\* "personas, models = _resolve_personas(request.persona_ids)", which
\* send_message reaches after the title and send_message_stream reaches first;
\* "if not models: models = COUNCIL_MODELS; personas = None"
ResolvePersonas ==
    /\ pc = (IF mode = "batch" THEN "r_resolve" ELSE "r_start")
    /\ LET r == _resolve_personas(persona_ids)
       IN  IF r.raised
           THEN /\ pc' = "r_rejected"
                /\ UNCHANGED <<models, personas>>
           ELSE /\ pc' = "r_resolved"
                /\ models' = IF r.models = <<>> THEN COUNCIL_MODELS ELSE r.models
                /\ personas' = IF r.models = <<>> THEN NoPersonas
                               ELSE [given |-> TRUE, list |-> r.personas]
    /\ UNCHANGED <<requestFrame, events, calls, title_task, store>>

\* the request goes on to Stage 1: run_full_council in send_message; in
\* event_generator add_user_message, the title task and stage1_start first
StartCouncil ==
    /\ pc = "r_resolved"
    /\ IF mode = "batch"
       THEN /\ calls' = calls \o [i \in DOMAIN models |-> [stage |-> "stage1", model |-> models[i]]]
            /\ UNCHANGED <<store, title_task, events>>
       ELSE /\ store' = [store EXCEPT !.messages = Append(@, "user")]
            /\ title_task' = IF is_first_message
                             THEN [st |-> "running", title |-> EmptyStr]
                             ELSE title_task
            /\ calls' = (IF is_first_message
                         THEN Append(calls, [stage |-> "title", model |-> TITLE_MODEL])
                         ELSE calls)
                        \o [i \in DOMAIN models |-> [stage |-> "stage1", model |-> models[i]]]
            /\ events' = Append(events, "stage1_start")
    /\ pc' = "r_stage1"
    /\ UNCHANGED <<requestFrame, models, personas>>

NextRequests == BatchAddUserMessage \/ BatchTitle \/ ResolvePersonas \/ StartCouncil

SpecRequests == InitRequests /\ [][NextRequests]_vars

\* ================================================================== claims
\* Stage 1 has returned and tasks still holds the outcomes of its member queries
Stage1Returned ==
    /\ pc \in {"b_stage1_done", "s_stage1_complete", "s_stage2_start", "done"}
    /\ tasks # <<>>
    /\ AllSettled
    /\ \A c \in Range(calls) : c.stage \notin {"stage2", "stage3"}

\* the members whose Stage-1 query returned a response, in member order
Succeeded == {i \in DOMAIN tasks : ~tasks[i].failed}

Ascending(S) ==
    [k \in 1..Cardinality(S) |->
        CHOOSE x \in S : Cardinality({y \in S : y < x}) = k - 1]

OnePerSuccess ==
    [k \in 1..Cardinality(Succeeded) |->
        [model |-> models[Ascending(Succeeded)[k]],
         response |-> tasks[Ascending(Succeeded)[k]].content]]

\* C1: Stage 1 returns exactly one entry per member whose query succeeded, in the
\* relative order of the members in the list, also when two members use the same
\* model identifier.
C1_OneEntryPerSuccessInOrder ==
    (Stage1Returned /\ Len(models) >= 1) => stage1_results = OnePerSuccess

\* The Stage-1 output written from the member list and the outcome of each member
\* alone: one entry per model identifier, at the place of the identifier's first
\* member, carrying the response of its last member, kept when that response is
\* not a failure.
LastMemberOf(m) == CHOOSE i \in DOMAIN models :
                       models[i] = m /\ \A j \in DOMAIN models : models[j] = m => j <= i

KeptFirsts ==
    {i \in DOMAIN models :
        /\ \A j \in DOMAIN models : j < i => models[j] # models[i]
        /\ ~tasks[LastMemberOf(models[i])].failed}

ByMemberOrder ==
    [k \in 1..Cardinality(KeptFirsts) |->
        [model |-> models[Ascending(KeptFirsts)[k]],
         response |-> tasks[LastMemberOf(models[Ascending(KeptFirsts)[k]])].content]]

Stage2Returned ==
    pc \in {"b_stage2_done", "b_stage3", "s_stage2_complete", "s_stage3_start", "s_stage3",
            "s_stage3_complete", "s_title_complete"}

\* C2: for a fixed member list and fixed outcomes of the members, the Stage-1
\* result sequence is a function of the member list and the outcomes alone,
\* whatever the order in which the member queries completed, and the label map
\* of Stage 2 follows the order of that sequence.
C2_ArrivalOrderNeverReorders ==
    /\ Stage1Returned => stage1_results = ByMemberOrder
    /\ Stage2Returned =>
          /\ DOMAIN label_to_model =
                 {"Response " \o Letters[k] : k \in DOMAIN stage1_results}
          /\ \A k \in DOMAIN stage1_results :
                 label_to_model["Response " \o Letters[k]] = stage1_results[k].model

\* Stage 1 returned two entries although a later member completed first
C2_CompletedOutOfOrder ==
    /\ Stage1Returned
    /\ Len(stage1_results) >= 2
    /\ \E p, q \in DOMAIN arrival : p < q /\ arrival[p] > arrival[q]

\* C3: every entry of the Stage-1 output has non-empty response text: a member
\* whose query failed or returned null or zero-length content contributes none.
C3_NoEmptyStage1Response ==
    Stage1Returned =>
        \A k \in DOMAIN stage1_results :
            stage1_results[k].response \notin {PyNone, EmptyStr}

Stage1Finished == pc \notin {"b_start", "b_stage1", "s_start", "s_stage1_start", "s_stage1"}

\* C4: in batch and in streaming mode, when Stage 1 yields zero results no Stage-2
\* ranking query and no Stage-3 chairman query is issued in that run (stated for
\* the runs over at least one member; the empty member list is C6's case).
C4_NoQueryAfterEmptyStage1 ==
    (models # <<>> /\ Stage1Finished /\ stage1_results = <<>>) =>
        \A c \in Range(calls) : c.stage \notin {"stage2", "stage3"}

\* every member query of Stage 1 failed
Stage1AllFailed == Stage1Returned /\ Succeeded = {}

\* C5: in batch mode, with a non-empty member list whose members all fail in
\* Stage 1, run_full_council returns stage1 = [], stage2 = [], the 'all models
\* failed' sentinel as stage3 and metadata = {}.
C5_BatchAllFailedResult ==
    (mode = "batch" /\ models # <<>> /\ Stage1AllFailed) =>
        /\ pc = "done"
        /\ result = [stage1 |-> <<>>, stage2 |-> <<>>,
                     stage3 |-> [model |-> "error", response |-> AllFailedError],
                     metadata |-> <<>>]

\* a batch run over two members, both failed, has returned
C5_BatchAllFailedReached ==
    mode = "batch" /\ Len(models) = 2 /\ Stage1AllFailed /\ pc = "done"

\* C6: with an empty member list the run ends in NoMembers (empty stage1 and
\* stage2, a sentinel stage3, empty metadata) and the pipeline makes no call at
\* all to the model query service (the title side task's query is not counted).
C6_NoMembersNoCall ==
    models = <<>> =>
        /\ \A c \in Range(calls) : c.stage = "title"
        /\ stage1_results = <<>> /\ stage2_results = <<>>
        /\ (mode = "batch" /\ pc = "done") => result = NoMembersResult

Stage3Returned == stage3_result # NotYet

\* C7: when the chairman query fails or returns a null or empty response, the
\* Stage-3 result is the chairman id with the fixed 'unable to generate final
\* synthesis' text, and the run still ends in Complete.
C7_ChairmanFailureSentinel ==
    (Stage3Returned /\ (chair.failed \/ chair.content \in {PyNone, EmptyStr})) =>
        /\ stage3_result = [model |-> CHAIRMAN_MODEL, response |-> SynthesisError]
        /\ (mode = "batch" =>
               /\ pc = "done"
               /\ result.stage1 = stage1_results /\ result.stage1 # <<>>
               /\ result.stage2 = stage2_results
               /\ result.metadata # <<>>)

\* ------------------------------------------------------- streaming events
StageEvents == <<"stage1_start", "stage1_complete", "stage2_start", "stage2_complete",
                 "stage3_start", "stage3_complete">>

IsPrefix(p, q) == Len(p) <= Len(q) /\ SubSeq(q, 1, Len(p)) = p

Count(type) == Cardinality({i \in DOMAIN events : events[i] = type})

Emitted(type) == \E i \in DOMAIN events : events[i] = type

Before(a, b) == \E i, j \in DOMAIN events : i < j /\ events[i] = a /\ events[j] = b

\* C8: a streaming run in which no exception occurs emits stage1_start,
\* stage1_complete, stage2_start, stage2_complete, stage3_start, stage3_complete
\* and complete exactly once each and in that order, complete last; a
\* title_complete, if any, comes after stage1_start and before complete.
C8_StreamEventOrder ==
    (mode = "stream" /\ ~Emitted("error")) =>
        /\ \/ IsPrefix(events, StageEvents \o <<"complete">>)
           \/ IsPrefix(events, StageEvents \o <<"title_complete", "complete">>)
        /\ pc = "done" => events[Len(events)] = "complete"
        /\ pc # "done" => ~Emitted("complete")

\* a streaming run of a first message over two members completed
C8_StreamCompleted ==
    /\ mode = "stream" /\ pc = "done" /\ Len(models) = 2
    /\ Emitted("title_complete") /\ Emitted("complete")

StageOf(k) == <<"stage1", "stage2", "stage3">>[k]

CompleteOf(k) == <<"stage1_complete", "stage2_complete", "stage3_complete">>[k]

\* C9 as stated: title_complete is emitted as soon as the title task resolves; if
\* the task resolves while Stage 1, 2 or 3 is still running, title_complete is
\* emitted before that stage's *_complete event.
C9_TitleEmittedWhenResolved ==
    \A k \in 1..3 :
        (title_during = StageOf(k) /\ title_task.st = "done" /\ Emitted(CompleteOf(k))) =>
            Before("title_complete", CompleteOf(k))

\* C9 as amended: the title task is joined only after stage3_complete, so
\* title_complete never precedes stage3_complete, whenever the task resolved,
\* and while the join has not been reached a resolved title is not yet emitted.
C9_TitleDeferredToJoin ==
    /\ Emitted("title_complete") => Before("stage3_complete", "title_complete")
    /\ \A k \in 1..3 :
          (title_during = StageOf(k) /\ Emitted(CompleteOf(k))) =>
              ~Before("title_complete", CompleteOf(k))

\* the title task resolved while Stage 1 was running and its event was emitted
C9_ResolvedEarlyEmittedLate ==
    title_during = "stage1" /\ Emitted("title_complete")

\* the turn's assistant message is in the store
AssistantPersisted ==
    Len(store.messages) = Len(StoredBefore(is_first_message)) + 2

\* C10: in streaming mode an exception that escapes a step gives exactly one
\* error event, which is the last event of the stream (no complete and no stage
\* event follows it), and the turn's assistant message is not persisted; a run
\* ends with complete or with error, never with neither.
C10_SingleTerminalError ==
    mode = "stream" =>
        /\ Count("error") <= 1
        /\ Emitted("error") =>
              /\ events[Len(events)] = "error"
              /\ pc = "done"
              /\ ~Emitted("complete")
              /\ ~AssistantPersisted
        /\ pc = "done" => (Emitted("error") \/ Emitted("complete"))

\* the parse of a null ranking raised after Stage 1 had completed
C10_ErrorAfterStages ==
    /\ mode = "stream" /\ Emitted("error")
    /\ Emitted("stage2_start") /\ ~Emitted("stage2_complete")

\* ------------------------------------------------------------ claims C11-C20
\* the queries of one stage, in the order they were started
StageCalls(stage) == SelectSeq(calls, LAMBDA c : c.stage = stage)

SomeMemberPending == \E i \in DOMAIN tasks : tasks[i] = Pending

AwaitsStage1 == pc \in {"b_stage1", "s_stage1"}

AwaitsStage2 == pc \in {"b_stage2", "s_stage2"}

\* C11: each stage is a fan-in barrier. While the controller awaits a stage, the
\* queries of all members have been started (one per member, together); while any
\* member query of a stage is unsettled the controller is still inside that
\* stage: the stage has produced no result, no Stage-2 query has been started
\* while a Stage-1 query is unsettled, and the chairman query has not been
\* started while a Stage-1 or Stage-2 query is unsettled.
C11_FanInBarriers ==
    /\ AwaitsStage1 =>
          /\ Len(StageCalls("stage1")) = Len(models)
          /\ Len(tasks) = Len(models)
    /\ AwaitsStage2 =>
          /\ Len(StageCalls("stage2")) = Len(models)
          /\ Len(tasks) = Len(models)
    /\ SomeMemberPending =>
          /\ AwaitsStage1 \/ AwaitsStage2
          /\ StageCalls("stage3") = <<>>
          /\ AwaitsStage1 => (StageCalls("stage2") = <<>> /\ stage1_results = <<>>)
          /\ AwaitsStage2 => stage2_results = <<>>

\* the chairman query was started after two members were queried in both stages
C11_ChairmanAfterBothBarriers ==
    /\ Len(StageCalls("stage1")) = 2
    /\ Len(StageCalls("stage2")) = 2
    /\ Len(StageCalls("stage3")) = 1

\* C12: a batch run of run_full_council never raises, whatever the outcomes of the
\* queries (null contents included): it ends by returning a 4-tuple that is
\* NoMembers (empty member list), AllFailed (Stage 1 gave no result) or Complete
\* (the three stage outputs with the label map and the aggregate), and Complete
\* exactly when Stage 1 gave at least one result.
C12_BatchAlwaysReturns ==
    mode = "batch" =>
        /\ pc # "raised"
        /\ pc = "done" =>
              \/ models = <<>> /\ result = NoMembersResult
              \/ models # <<>> /\ stage1_results = <<>> /\ result = AllFailedResult
              \/ /\ stage1_results # <<>>
                 /\ result = [stage1 |-> stage1_results, stage2 |-> stage2_results,
                              stage3 |-> stage3_result,
                              metadata |-> [label_to_model |-> label_to_model,
                                            aggregate_rankings |-> aggregate_rankings]]

\* the uppercase letters in alphabetical order
UppercaseLetters ==
    <<"A", "B", "C", "D", "E", "F", "G", "H", "I", "J", "K", "L", "M",
      "N", "O", "P", "Q", "R", "S", "T", "U", "V", "W", "X", "Y", "Z">>

\* C13: for a Stage-1 result list of any length n, Stage 2 assigns exactly n
\* labels, the i-th label is the i-th letter of A, B, C, ... (a single uppercase
\* letter) and no label occurs twice.
C13_LabelsAreLetters ==
    fn_pc = "returned_labels" =>
        /\ Len(labels) = Len(stage1_results)
        /\ \A i \in DOMAIN labels :
              i \in DOMAIN UppercaseLetters /\ labels[i] = UppercaseLetters[i]
        /\ \A i, j \in DOMAIN labels : labels[i] = labels[j] => i = j

\* C14: the label map Stage 2 returns is a bijection between the assigned labels
\* and the model ids of the Stage-1 results: one key "Response <label>" per
\* Stage-1 result, the i-th key mapped to the model of the i-th result, no two
\* keys mapped to the same model and every Stage-1 model the value of a key.
C14_LabelMapBijective ==
    Stage2Returned =>
        /\ DOMAIN label_to_model =
               {"Response " \o UppercaseLetters[i] : i \in DOMAIN stage1_results}
        /\ Cardinality(DOMAIN label_to_model) = Len(stage1_results)
        /\ \A i \in DOMAIN stage1_results :
               label_to_model["Response " \o UppercaseLetters[i]] = stage1_results[i].model
        /\ \A k1, k2 \in DOMAIN label_to_model :
               label_to_model[k1] = label_to_model[k2] => k1 = k2
        /\ {label_to_model[k] : k \in DOMAIN label_to_model} =
               {stage1_results[i].model : i \in DOMAIN stage1_results}

\* Stage 2 returned the label map of two Stage-1 results
C14_TwoLabelsMapped ==
    Stage2Returned /\ Len(stage1_results) = 2 /\ Cardinality(DOMAIN label_to_model) = 2

\* Stage 2 has started its queries
Stage2Started ==
    pc \in {"b_stage2", "b_stage2_done", "b_stage3", "raised", "s_stage2",
            "s_stage2_complete", "s_stage3_start", "s_stage3", "s_stage3_complete",
            "s_title_complete"}

\* C15: whenever Stage 2 runs it sends one ranking query to every member of the
\* council, in member order, whether or not that member's Stage-1 query gave a
\* result: the members queried in Stage 2 are the member list itself.
C15_Stage2AsksEveryMember ==
    Stage2Started =>
        StageCalls("stage2") = [i \in DOMAIN models |-> [stage |-> "stage2", model |-> models[i]]]

\* Stage 2 queried two different members, one of which has no Stage-1 result
C15_FailedMemberAsked ==
    /\ Len(StageCalls("stage2")) = 2
    /\ models[1] # models[2]
    /\ Len(stage1_results) = 1

\* C16: a member whose Stage-2 query fails or returns empty content (null or a
\* zero-length string) is dropped from the Stage-2 result list, and the stage
\* still returns normally: it never raises, in batch or in streaming mode, and no
\* entry of its result has a null or empty ranking text.
C16_EmptyRankingDropped ==
    /\ pc # "raised"
    /\ ~(Emitted("error") /\ Emitted("stage2_start") /\ ~Emitted("stage2_complete"))
    /\ Stage2Returned =>
          \A j \in DOMAIN stage2_results : stage2_results[j].ranking \notin {PyNone, EmptyStr}

\* parse_ranking_from_text was called with a text and returned
ParsedText == fn_pc = "returned_parse"

HasMarker(text) == \E i \in DOMAIN text : text[i] = <<"FR">>

\* everything that follows the first occurrence of the marker, up to the end
TailOf(text) ==
    LET first == CHOOSE i \in DOMAIN text :
                     text[i] = <<"FR">> /\ \A j \in 1..(i - 1) : text[j] # <<"FR">>
    IN  SubSeq(text, first + 1, Len(text))

\* the "Response X" of the numbered items of s, in textual order
NumberedItems(s) ==
    LET m == SelectSeq(s, LAMBDA t : t[1] = "num")
    IN  [j \in DOMAIN m |-> "Response " \o m[j][2]]

\* every "Response X" occurrence of s, numbered or not, in textual order
Mentions(s) ==
    LET m == SelectSeq(s, LAMBDA t : t[1] \in {"num", "bare"})
    IN  [j \in DOMAIN m |-> "Response " \o m[j][2]]

\* C17: for a text that contains the marker and whose tail (everything after the
\* first marker) contains at least one numbered item, the parse returns exactly
\* the "Response X" tokens of the tail's numbered items, in order, and nothing
\* else (bare mentions in the tail are not included).
C17_NumberedItemsOfTail ==
    (ParsedText /\ HasMarker(text_arg) /\ NumberedItems(TailOf(text_arg)) # <<>>) =>
        parsed_ranking = NumberedItems(TailOf(text_arg))

\* C18: when the marker occurs once or several times, the labels are extracted
\* from everything that follows its first occurrence up to the end of the text:
\* the result is what the numbered-then-bare extraction gives on that tail.
C18_ExtractsFromWholeTail ==
    (ParsedText /\ HasMarker(text_arg)) =>
        parsed_ranking = (IF NumberedItems(TailOf(text_arg)) # <<>>
                          THEN NumberedItems(TailOf(text_arg))
                          ELSE Mentions(TailOf(text_arg)))

\* C19: for every input text the parse returns and does not raise, and it
\* returns the empty sequence whenever the text contains no "Response X" token
\* anywhere.
C19_NeverRaisesOnText ==
    (fn_pc \in {"returned_parse", "raised"} /\ text_arg # PyNone) =>
        /\ fn_pc = "returned_parse"
        /\ Mentions(text_arg) = <<>> => parsed_ranking = <<>>

\* a text with prose and the marker but no "Response X" token was parsed
C19_MarkerWithoutRanking ==
    /\ ParsedText /\ text_arg # PyNone
    /\ HasMarker(text_arg) /\ <<"w">> \in Range(text_arg)
    /\ Mentions(text_arg) = <<>>
    /\ parsed_ranking = <<>>

\* C20: if the marker is present and its tail has no numbered item, the result
\* is all bare "Response X" tokens of the tail in order; only if the marker is
\* absent is the whole text scanned, for every "Response X" occurrence.
C20_FallbackOrder ==
    ParsedText =>
        /\ (HasMarker(text_arg) /\ NumberedItems(TailOf(text_arg)) = <<>>) =>
               parsed_ranking = Mentions(TailOf(text_arg))
        /\ ~HasMarker(text_arg) => parsed_ranking = Mentions(text_arg)

\* ------------------------------------------------------------ claims C21-C30
\* calculate_aggregate_rankings was called and returned
Aggregated == fn_pc = "returned_aggregate"

\* the observations of a model: the pairs <<r, p>> such that the p-th label of the
\* r-th parsed ranking is a key of the label map with that model as its value
Observations(model) ==
    {rp \in (DOMAIN stage2_results) \X (1..(MaxRankLen + 1)) :
        /\ rp[2] \in DOMAIN stage2_results[rp[1]].parsed_ranking
        /\ stage2_results[rp[1]].parsed_ranking[rp[2]] \in DOMAIN label_to_model
        /\ label_to_model[stage2_results[rp[1]].parsed_ranking[rp[2]]] = model}

RECURSIVE SumOfPositions(_)
SumOfPositions(S) ==
    IF S = {} THEN 0
    ELSE LET rp == CHOOSE x \in S : TRUE IN rp[2] + SumOfPositions(S \ {rp})

MappedModels == {label_to_model[k] : k \in DOMAIN label_to_model}

EntriesOf(model) == {j \in DOMAIN aggregate_rankings : aggregate_rankings[j].model = model}

\* h hundredths is total / count rounded to two decimals
IsRoundedMean(h, total, count) ==
    /\ 2 * (100 * total - count * h) <= count
    /\ 2 * (count * h - 100 * total) <= count

\* C21: for every model with at least one observation the aggregate reports
\* average_rank = the mean of the 1-based positions of its label over all parsed
\* rankings, rounded to 2 decimals, and rankings_count = the number of those
\* occurrences; a label written twice in one ranking counts twice.
C21_MeanAndCountOfObservations ==
    Aggregated =>
        \A m \in MappedModels :
            Observations(m) # {} =>
                /\ EntriesOf(m) # {}
                /\ \A j \in EntriesOf(m) :
                      /\ aggregate_rankings[j].rankings_count = Cardinality(Observations(m))
                      /\ IsRoundedMean(aggregate_rankings[j].average_rank,
                                       SumOfPositions(Observations(m)),
                                       Cardinality(Observations(m)))

\* a model has more observations than there are Stage-2 results
C21_CountedTwiceInOneRanking ==
    /\ Aggregated
    /\ \E j \in DOMAIN aggregate_rankings :
          aggregate_rankings[j].rankings_count > Len(stage2_results)

\* when a model was first encountered in the walk over the Stage-2 results and
\* their parsed sequences: earlier result first, then earlier position
FirstEncounter(model) ==
    CHOOSE rp \in Observations(model) :
        \A x \in Observations(model) :
            rp[1] < x[1] \/ (rp[1] = x[1] /\ rp[2] <= x[2])

EncounteredBefore(m1, m2) ==
    \/ FirstEncounter(m1)[1] < FirstEncounter(m2)[1]
    \/ /\ FirstEncounter(m1)[1] = FirstEncounter(m2)[1]
       /\ FirstEncounter(m1)[2] < FirstEncounter(m2)[2]

\* C22: the aggregate is sorted in non-decreasing order of average_rank, and
\* entries of equal average_rank keep the order in which their models were first
\* encountered in the walk (the sort is stable).
C22_SortedStable ==
    Aggregated =>
        \A i, j \in DOMAIN aggregate_rankings :
            i < j =>
                /\ aggregate_rankings[i].average_rank <= aggregate_rankings[j].average_rank
                /\ aggregate_rankings[i].average_rank = aggregate_rankings[j].average_rank =>
                      EncounteredBefore(aggregate_rankings[i].model, aggregate_rankings[j].model)

\* the rankings [A, B] and [B, A]: both models at 1.5, the first encountered first
C22_TieInEncounterOrder ==
    /\ Aggregated
    /\ Len(stage2_results) = 2
    /\ stage2_results[1].parsed_ranking = <<"Response A", "Response B">>
    /\ stage2_results[2].parsed_ranking = <<"Response B", "Response A">>
    /\ Len(aggregate_rankings) = 2
    /\ aggregate_rankings[1].average_rank = 150
    /\ aggregate_rankings[2].average_rank = 150
    /\ aggregate_rankings[1].model = label_to_model["Response A"]

\* C23: every entry of the aggregate has rankings_count >= 1 and a model that is
\* a value of the label map, no model has two entries, and a model whose label
\* occurs in no parsed ranking has no entry.
C23_OnlyObservedModels ==
    Aggregated =>
        /\ \A j \in DOMAIN aggregate_rankings :
              /\ aggregate_rankings[j].rankings_count >= 1
              /\ aggregate_rankings[j].model \in MappedModels
        /\ \A i, j \in DOMAIN aggregate_rankings :
              aggregate_rankings[i].model = aggregate_rankings[j].model => i = j
        /\ \A m \in MappedModels : Observations(m) = {} => EntriesOf(m) = {}

\* of two mapped models only one is mentioned and only that one has an entry
C23_UnmentionedModelAbsent ==
    /\ Aggregated
    /\ Cardinality(MappedModels) = 2
    /\ Len(aggregate_rankings) = 1
    /\ \E m \in MappedModels : Observations(m) = {}

\* C24: a parsed label that is not a key of the label map adds no observation and
\* is no error, but keeps its position: in the aggregate of a single ranking the
\* counts add up to the number of known labels, and a known label written once
\* at index p of the parsed sequence gives its model the rank p, the unknown
\* labels before it counted.
C24_UnknownLabelKeepsPosition ==
    (Aggregated /\ Len(stage2_results) = 1) =>
        LET parsed == stage2_results[1].parsed_ranking
            known  == {p \in DOMAIN parsed : parsed[p] \in DOMAIN label_to_model}
        IN  /\ SumSeq([j \in DOMAIN aggregate_rankings |->
                          aggregate_rankings[j].rankings_count]) = Cardinality(known)
            /\ \A p \in known :
                  (\A q \in known : parsed[q] = parsed[p] => q = p) =>
                      \E j \in DOMAIN aggregate_rankings :
                          /\ aggregate_rankings[j].model = label_to_model[parsed[p]]
                          /\ aggregate_rankings[j].average_rank = 100 * p
                          /\ aggregate_rankings[j].rankings_count = 1

\* the ranking [C, A] with no key for C: A's model is ranked second
C24_KnownAfterUnknown ==
    /\ Aggregated
    /\ Len(stage2_results) = 1
    /\ stage2_results[1].parsed_ranking = <<"Response C", "Response A">>
    /\ "Response A" \in DOMAIN label_to_model
    /\ "Response C" \notin DOMAIN label_to_model
    /\ Len(aggregate_rankings) = 1
    /\ aggregate_rankings[1].average_rank = 200

\* the queries of a stage are one query per member, in member order
OnePerMember(stage) ==
    StageCalls(stage) = [i \in DOMAIN models |-> [stage |-> stage, model |-> models[i]]]

BatchReturned(kind) ==
    /\ mode = "batch" /\ pc = "done"
    /\ CASE kind = "NoMembers" -> result = NoMembersResult
         [] kind = "AllFailed" -> result = AllFailedResult
         [] OTHER -> result \notin {NoMembersResult, AllFailedResult}

\* C25: no query is retried. A stage never sends more than one query per member
\* and the chairman is queried at most once; a run over N members that reaches
\* Complete has sent exactly N Stage-1 queries, N Stage-2 queries and one
\* chairman query, and a run that ends in AllFailed exactly N queries in all.
C25_NoRetry ==
    /\ StageCalls("stage1") = <<>> \/ OnePerMember("stage1")
    /\ StageCalls("stage2") = <<>> \/ OnePerMember("stage2")
    /\ Len(StageCalls("stage3")) <= 1
    /\ (BatchReturned("Complete") \/ Emitted("complete")) =>
          /\ OnePerMember("stage1")
          /\ OnePerMember("stage2")
          /\ Len(StageCalls("stage3")) = 1
    /\ BatchReturned("AllFailed") => (Len(calls) = Len(models) /\ OnePerMember("stage1"))

\* a batch run over two members reached Complete although a Stage-1 query failed
C25_CompleteAfterFailure ==
    /\ BatchReturned("Complete")
    /\ Len(models) = 2
    /\ Len(stage1_results) = 1

\* member i has a persona with a non-empty prompt
HasPromptedPersona(i) ==
    /\ personas.given
    /\ i \in DOMAIN personas.list
    /\ personas.list[i].prompt # EmptyStr

C27_TitleTaskLifecycle ==
    mode = "stream" =>
        /\ StageCalls("title") # <<>> =>
              /\ is_first_message
              /\ Len(StageCalls("title")) = 1
              /\ calls[1].stage = "title"
        /\ title_task # NoTitleTask => (is_first_message /\ StageCalls("title") # <<>>)
        /\ \A c \in Range(calls) : c.stage \in {"title", "stage1", "stage2", "stage3"}
        /\ Emitted("title_complete") =>
              /\ Before("stage3_complete", "title_complete")
              /\ title_task.st = "done"
              /\ store.title = title_task.title
        /\ ~Emitted("title_complete") => store.title = NewConversation
        /\ (title_task.st = "running" /\ pc \in {"s_stage1_complete", "s_stage2_complete"}) =>
              events[Len(events)] \in {"stage1_complete", "stage2_complete"}

\* the title task ran through Stages 1 and 2, resolved during Stage 3 and was
\* joined after stage3_complete
C27_OverlappedThenJoined ==
    /\ mode = "stream"
    /\ title_during = "stage3"
    /\ Emitted("stage2_complete")
    /\ Emitted("title_complete")

\* what get_providers_models found at the call of request r: a catalog is
\* cached and was stored less than 300 seconds before
CachedAndRecent(r) ==
    /\ requests[r].saw_cache # NoCatalog
    /\ requests[r].saw_age < 300

\* C28: a call of get_providers_models returns the cached catalog without
\* fetching exactly if a catalog is cached and was stored less than 300
\* seconds ago, and fetches otherwise; a fetch that returns stores its catalog
\* in _cache with the current time and the call returns that catalog; the
\* first call after clear_models_cache always fetches, however the requests
\* interleave.
C28_CacheHitOrFetch ==
    /\ [](\A r \in DOMAIN requests :
             /\ ~requests[r].fetched <=> CachedAndRecent(r)
             /\ ~requests[r].fetched =>
                   /\ requests[r].pc = "done"
                   /\ requests[r].returned = requests[r].saw_cache
             /\ requests[r].after_clear => requests[r].fetched
             /\ (requests[r].fetched /\ requests[r].pc = "done") =>
                   requests[r].returned = Fetched(r))
    /\ [](~clear_pending)
    /\ [][\A r \in DOMAIN requests :
             (requests[r].pc = "fetching" /\ requests'[r].pc = "done") =>
                 /\ _cache' = Fetched(r)
                 /\ _cache_time' = clock'.time
                 /\ requests'[r].returned = _cache']_vars

\* a call returned the catalog from the cache, and the refresh made right after
\* it, with that catalog still cached and recent, fetched again and returned
\* what it fetched
C28_HitThenRefreshFetches ==
    \E r \in DOMAIN requests :
        /\ r > 1
        /\ ~requests[r - 1].fetched
        /\ requests[r - 1].returned # NoCatalog
        /\ clock.ticks = 0
        /\ requests[r].kind = "refresh_models"
        /\ requests[r].after_clear
        /\ requests[r].pc = "done"
        /\ requests[r].returned = Fetched(r)

\* the data of stage1_complete, stage2_complete with its metadata and
\* stage3_complete
StreamEmitted ==
    [stage1 |-> stage1_results, stage2 |-> stage2_results, stage3 |-> stage3_result,
     metadata |-> [label_to_model |-> label_to_model,
                   aggregate_rankings |-> aggregate_rankings]]

\* what run_full_council returns for the member list and the stage results of
\* the state, the chairman answering as it did
BatchReturn ==
    IF models = <<>> THEN NoMembersResult
    ELSE IF stage1_results = <<>> THEN AllFailedResult
    ELSE StreamEmitted

\* the prompt run_full_council has stage3_synthesize_final send to the chairman
BatchChairmanPrompt == ChairmanPrompt(UserQuery, stage1_results, stage2_results, personas)

\* C29: for the same query, member list, personas and answers of the queried
\* models, the chairman of a streaming run receives the prompt run_full_council
\* sends, and the data the streaming run emits for the three stages equal what
\* run_full_council returns.
C29_StreamEqualsBatch ==
    (mode = "stream" /\ pc = "p_done") =>
        /\ StageCalls("stage3")[1].messages[1].content = BatchChairmanPrompt
        /\ StreamEmitted = BatchReturn

\* the persona block of the prompt the chairman was sent
SentPersonaBlock == StageCalls("stage3")[1].messages[1].content.persona_context

Persisted ==
    SubSeq(store.messages, Len(StoredBefore(is_first_message)) + 1, Len(store.messages))

\* C31: a streaming run has stored the user message exactly once when it emits
\* stage1_start and never stores it again; it stores the assistant message at
\* most once, after the user message; at every moment the assistant message is
\* stored exactly if complete has been emitted, so a run that ends without
\* complete, and every run that emits error, has stored no assistant message.
C31_StreamPersistence ==
    mode = "stream" =>
        LET saved == Persisted
            completed == Emitted("complete")
        IN  /\ IF completed THEN saved = <<"user", "assistant">>
                ELSE IF Emitted("stage1_start") THEN saved = <<"user">>
                ELSE saved = <<>>
            /\ Emitted("error") => ~completed
            /\ (pc = "done" /\ ~completed) => Emitted("error")

\* a run went through the three stages, stored both messages and emitted complete
C31_SavedAndCompleted ==
    /\ mode = "stream"
    /\ pc = "done"
    /\ Emitted("stage3_complete")
    /\ Emitted("complete")
    /\ Persisted = <<"user", "assistant">>

\* C32: generate_conversation_title never raises, whatever the outcome of the
\* title query (failure, text, empty or null content), and what it returns is a
\* string, 'New Conversation' on failure; so the title task never ends by
\* raising into the streaming run that joins it.
C32_TitleNeverRaises ==
    /\ title_task.st # "raised"
    /\ title_task.st = "done" => title_task.title # PyNone

\* the IDs of the request that are neither empty nor blank, in their order
SuppliedIds == SelectSeq(persona_ids.list, NonBlank)

\* C33: a message request rejected by _resolve_personas (unknown persona ID, or
\* a persona without a model) leaves the conversation as it was in both
\* endpoints: no user message stored, no title generated or stored, no model
\* query issued; a request that is accepted with personas has as many models
\* as personas, models[i] being the model of personas[i], the personas being
\* those of the supplied IDs in their order.
C33_RejectedRequestLeavesNoTrace ==
    /\ pc = "r_rejected" =>
          /\ store = [messages |-> StoredBefore(is_first_message), title |-> NewConversation]
          /\ calls = <<>>
          /\ title_task = NoTitleTask
    /\ (pc \in {"r_resolved", "r_stage1"} /\ personas.given) =>
          /\ Len(personas.list) = Len(models)
          /\ Len(personas.list) = Len(SuppliedIds)
          /\ \A i \in DOMAIN models :
                /\ personas.list[i].id = SuppliedIds[i]
                /\ models[i] = personas.list[i].model

====
